---- MODULE Spec2Model ----
(***************************************************************************)
(* A model of TheNumberOne.py: the dispatcher metaclass (per-class command *)
(* and forward tables chained over the class hierarchy), the registration  *)
(* calls, cast_using_type_hints, TheNumberOne.on_message and the plugin     *)
(* loading of TheNumberOne.on_ready.                                       *)
(*                                                                         *)
(* Texts are sequences of one-character strings, so that startswith,       *)
(* slicing, split and strip are computed the way Python computes them.     *)
(***************************************************************************)
EXTENDS Integers, Sequences, FiniteSets, TLC

VARIABLES
    maps,        \* class -> the ChainMap's list of tables, each named by its owning class
    commands,    \* class -> its own command table (a dict: DOMAIN = the registered names)
    forwards,    \* class -> its own forward table (a dict: channel name -> list of SubBot)
    lastCall,    \* the last class creation or registration call and how it ended
    nCalls,      \* number of registration calls made so far
    PREFIX,      \* config_parser.PREFIX
    pc,          \* task -> where its on_message coroutine stands
    msg,         \* task -> the message on_message was called with
    idx,         \* task -> position in the forward list being iterated
    locals,      \* task -> on_message's cmd_name, payload, cmd.callback and kwargs
    trace,       \* task -> what on_message did so far: forwards, lookups, replies, calls
    escaped,     \* task -> the exception that left on_message ("" when none)
    pin,         \* input of the invocation-style detection run on its own
    pout,        \* its result
    cin,         \* input of cast_using_type_hints run on its own
    cout,        \* its result
    connected_,  \* self.connected_
    plugins,     \* what listdir("plugins") returns, in its order
    cursor,      \* number of entries the loop of on_ready has gone through
    executed,    \* the units whose module body ran to its end, in order
    onReady,     \* where the on_ready that loads the plugins stands
    lastReady,   \* what the last call of on_ready did: "loads" or "ignored"
    loadRuns     \* number of times the plugin loading was started

vars == <<maps, commands, forwards, lastCall, nCalls, PREFIX, pc, msg, idx,
          locals, trace, escaped, pin, pout, cin, cout,
          connected_, plugins, cursor, executed, onReady, lastReady, loadRuns>>

regVars == <<maps, commands, forwards, lastCall, nCalls>>
taskVars == <<pc, msg, idx, locals, trace, escaped>>
parseVars == <<pin, pout>>
castVars == <<cin, cout>>
loadVars == <<connected_, plugins, cursor, executed, onReady, lastReady, loadRuns>>

-----------------------------------------------------------------------------
(* Bounds *)

MaxCalls == 2       \* registration calls explored by SpecReg
MaxTail == 3        \* length of the free part of a text in SpecParse
MaxValLen == 1      \* length of a captured string in SpecCast

-----------------------------------------------------------------------------
(* Strings *)

Space == " "

RECURSIVE LStrip(_, _)
LStrip(s, ch) == IF s # <<>> /\ Head(s) = ch THEN LStrip(Tail(s), ch) ELSE s

RECURSIVE RStrip(_, _)
RStrip(s, ch) ==
    IF s # <<>> /\ s[Len(s)] = ch THEN RStrip(SubSeq(s, 1, Len(s) - 1), ch) ELSE s

\* str.strip(ch)
Strip(s, ch) == RStrip(LStrip(s, ch), ch)

\* str.startswith
StartsWith(s, p) == Len(p) <= Len(s) /\ SubSeq(s, 1, Len(p)) = p

\* s[n:]
DropFirst(s, n) == SubSeq(s, n + 1, Len(s))

\* str.find(" "): the first position of a space, 0 when there is none
FindSpace(s) ==
    IF \E i \in 1..Len(s) : s[i] = Space
    THEN CHOOSE i \in 1..Len(s) : s[i] = Space /\ \A j \in 1..(i - 1) : s[j] # Space
    ELSE 0

\* str.split(" ", maxsplit): a sequence of strings
RECURSIVE SplitSpace(_, _)
SplitSpace(s, maxsplit) ==
    IF maxsplit = 0 \/ FindSpace(s) = 0
    THEN <<s>>
    ELSE <<SubSeq(s, 1, FindSpace(s) - 1)>>
         \o SplitSpace(DropFirst(s, FindSpace(s)), maxsplit - 1)

\* All sequences over S of length at most n
RECURSIVE SeqsUpTo(_, _)
SeqsUpTo(S, n) ==
    IF n = 0 THEN {<<>>}
    ELSE LET shorter == SeqsUpTo(S, n - 1)
         IN  shorter \cup {Append(s, x) : s \in {t \in shorter : Len(t) = n - 1}, x \in S}

-----------------------------------------------------------------------------
(* Names, written as texts so that they can be compared with parsed tokens *)

ping == <<"p", "i", "n", "g">>
help == <<"h", "e", "l", "p">>
kick == <<"k", "i", "c", "k">>
roll == <<"r", "o", "l", "l">>

\* dict helpers: a dict is a function whose DOMAIN is its set of keys
EmptyDict == [k \in {} |-> 0]
DictPut(d, key, value) ==
    [k \in DOMAIN d \cup {key} |-> IF k = key THEN value ELSE d[k]]

-----------------------------------------------------------------------------
(* Callbacks: the two of the source (ping, help_) and plugin-style ones     *)

Classes == {"TheNumberOne", "Sub1", "Sub2", "Sub3"}
ClassOrder == <<"TheNumberOne", "Sub1", "Sub2", "Sub3">>

CommandCallbacks == {"ping", "help_", "kick", "roll", "_ping_", "_help"}
ForwardCallbacks == {"f1", "f2", "f3"}

\* callback.__name__
FuncName(cb) ==
    CASE cb = "ping"   -> ping
      [] cb = "help_"  -> help \o <<"_">>
      [] cb = "kick"   -> kick
      [] cb = "roll"   -> roll
      [] cb = "_ping_" -> <<"_">> \o ping \o <<"_">>
      [] cb = "_help"  -> <<"_">> \o help
      [] OTHER         -> <<"f">>

\* inspect.getfullargspec(callback)
\*   async def ping(message)
\*   async def help_(message, *_, cmd_name: str = "")
\*   def kick(message, *, user)
\*   async def roll(message, *, a: int, b=None)
\*   def _ping_(message, **kwargs)
\*   def _help()
getfullargspec(cb) ==
    CASE cb = "ping"   -> [args |-> 1, varargs |-> FALSE, kwonlyargs |-> {}, varkw |-> FALSE]
      [] cb = "help_"  -> [args |-> 1, varargs |-> TRUE, kwonlyargs |-> {"cmd_name"}, varkw |-> FALSE]
      [] cb = "kick"   -> [args |-> 1, varargs |-> FALSE, kwonlyargs |-> {"user"}, varkw |-> FALSE]
      [] cb = "roll"   -> [args |-> 1, varargs |-> FALSE, kwonlyargs |-> {"a", "b"}, varkw |-> FALSE]
      [] cb = "_ping_" -> [args |-> 1, varargs |-> FALSE, kwonlyargs |-> {}, varkw |-> TRUE]
      [] cb = "_help"  -> [args |-> 0, varargs |-> FALSE, kwonlyargs |-> {}, varkw |-> FALSE]
      [] OTHER         -> [args |-> 1, varargs |-> FALSE, kwonlyargs |-> {}, varkw |-> FALSE]

\* typing.get_type_hints(callback): parameter name -> type
get_type_hints(cb) ==
    CASE cb = "help_" -> [k \in {"cmd_name"} |-> "str"]
      [] cb = "roll"  -> [k \in {"a"} |-> "int"]
      [] OTHER        -> EmptyDict

\* asyncio.iscoroutinefunction(callback)
iscoroutinefunction(cb) == cb \in {"ping", "help_", "roll", "f1", "f3"}

-----------------------------------------------------------------------------
(* Patterns. A pattern source is None, the empty string, or a regular       *)
(* expression of the family                                                  *)
(*    (?P<g1>\S+)  (?P<g1>\S+)?  (?P<g1>\S+)(?: (?P<g2>\S+))?               *)
(* given by its named groups in order, each optional or not.                 *)

NonePattern == [kind |-> "none", groups |-> <<>>]
EmptyPattern == [kind |-> "empty", groups |-> <<>>]
Regex(groups) == [kind |-> "regex", groups |-> groups]
Group(name, optional) == [name |-> name, optional |-> optional]

HelpPattern == Regex(<<Group("cmd_name", TRUE)>>)     \* r"(?P<cmd_name>\S+)?"
UserPattern == Regex(<<Group("user", FALSE)>>)        \* r"(?P<user>\S+)"
RollPattern == Regex(<<Group("a", FALSE), Group("b", TRUE)>>)
                                                      \* r"(?P<a>\S+)(?: (?P<b>\S+))?"
APattern == Regex(<<Group("a", FALSE)>>)              \* r"(?P<a>\S+)"

\* args_re.findall(pattern): the names of the pattern's named groups
args_re_findall(pattern) == {pattern.groups[i].name : i \in 1..Len(pattern.groups)}

\* the truth value of a pattern source: None and "" are false
Truthy(pattern) == pattern.kind = "regex"

\* a scope: None, or a collection of names
NoneScope == [none |-> TRUE, names |-> {}]
Scope(names) == [none |-> FALSE, names |-> names]

Command(channels, roles, regexp, callback) ==
    [channels |-> channels, roles |-> roles, regexp |-> regexp, callback |-> callback]
SubBot(allow_commands, callback) ==
    [allow_commands |-> allow_commands, callback |-> callback]

-----------------------------------------------------------------------------
(* DispatcherMeta *)

RECURSIVE ConcatMaps(_, _)
ConcatMaps(mp, bases) ==
    IF bases = <<>> THEN <<>> ELSE mp[Head(bases)] \o ConcatMaps(mp, Tail(bases))

\* DispatcherMeta.__new__: the new class's ChainMap is a fresh table followed by
\* the tables of each base's ChainMap, base after base
NewMaps(mp, cls, bases) == [mp EXCEPT ![cls] = <<cls>> \o ConcatMaps(mp, bases)]

Created(mp) == {c \in Classes : mp[c] # <<>>}
Ancestors(mp, c) == {mp[c][i] : i \in 1..Len(mp[c])} \ {c}

\* ChainMap lookup: the class whose table is the first of cls's chain to hold key
\* ("" when no table holds it)
ChainOwner(mp, tables, cls, key) ==
    LET hits == {i \in 1..Len(mp[cls]) : key \in DOMAIN tables[mp[cls][i]]}
    IN  IF hits = {} THEN ""
        ELSE mp[cls][CHOOSE i \in hits : \A j \in hits : i <= j]

ChainHas(mp, tables, cls, key) == ChainOwner(mp, tables, cls, key) # ""
ChainGet(mp, tables, cls, key) == tables[ChainOwner(mp, tables, cls, key)][key]

\* how set_command ends: "" when it registers
SetCommandError(pattern, callback) ==
    LET fap == getfullargspec(callback)
        pargs == args_re_findall(pattern)
        kwoargs == fap.kwonlyargs
    IN  IF fap.args < 1 /\ ~fap.varargs THEN "ValueError:signature"
        ELSE IF Truthy(pattern) /\ ~fap.varkw
             THEN IF pargs \ kwoargs # {} THEN "ValueError:groups"
                  ELSE IF kwoargs \ pargs # {} THEN "NameError:unused"
                  ELSE ""
             ELSE ""

\* set_command with the table written before the signature is checked
set_command_InsertFirst(cmds, cls, channels, roles, pattern, callback) ==
    [cmds EXCEPT ![cls] = DictPut(@, Strip(FuncName(callback), "_"),
        Command(channels, roles, IF Truthy(pattern) THEN pattern ELSE NonePattern, callback))]

\* the command table of every class after set_command
set_command(cmds, cls, channels, roles, pattern, callback) ==
    LET cmd_name == Strip(FuncName(callback), "_")
    IN  IF SetCommandError(pattern, callback) # "" THEN cmds
        ELSE [cmds EXCEPT ![cls] = DictPut(@, cmd_name,
                  Command(channels, roles,
                          IF Truthy(pattern) THEN pattern ELSE NonePattern, callback))]

\* one turn of add_forward's loop
AddForwardOne(mp, fwds, cls, channel, allow_commands, callback) ==
    LET created == IF ChainHas(mp, fwds, cls, channel) THEN fwds
                   ELSE [fwds EXCEPT ![cls] = DictPut(@, channel, <<>>)]
        owner == ChainOwner(mp, created, cls, channel)
    IN  [created EXCEPT ![owner][channel] = Append(@, SubBot(allow_commands, callback))]

\* the forward table of every class after add_forward
RECURSIVE add_forward(_, _, _, _, _, _)
add_forward(mp, fwds, cls, channels, allow_commands, callback) ==
    IF channels = <<>> THEN fwds
    ELSE add_forward(mp,
                     AddForwardOne(mp, fwds, cls, Head(channels), allow_commands, callback),
                     cls, Tail(channels), allow_commands, callback)


-----------------------------------------------------------------------------
(* The state after the module is imported: class TheNumberOne exists and    *)
(* holds the commands ping and help.                                         *)

NoTables == [c \in Classes |-> EmptyDict]
ImportedMaps == NewMaps([c \in Classes |-> <<>>], "TheNumberOne", <<>>)
ImportedCommands ==
    set_command(
        set_command(NoTables, "TheNumberOne", NoneScope, NoneScope, NonePattern, "ping"),
        "TheNumberOne", NoneScope, NoneScope, HelpPattern, "help_")

NoCall == [op |-> "none", cls |-> "", key |-> <<>>, result |-> "",
           pattern |-> NonePattern, callback |-> ""]

ChannelNames == {"general", "test-bot", "dm"}
RoleNames == {"admin", "member"}

\* the decorator uses the model explores: register(channels, roles, pattern)(callback)
CommandCall(channels, roles, pattern, callback) ==
    [channels |-> channels, roles |-> roles, pattern |-> pattern, callback |-> callback]
CommandCalls ==
    { CommandCall(NoneScope, NoneScope, NonePattern, "ping"),      \* line 190
      CommandCall(NoneScope, NoneScope, EmptyPattern, "_ping_"),   \* ping again, other callback
      CommandCall(NoneScope, NoneScope, NonePattern, "_help"),     \* no positional parameter
      CommandCall(NoneScope, NoneScope, UserPattern, "ping"),      \* group user, no such parameter
      CommandCall(NoneScope, NoneScope, APattern, "roll") }        \* parameter b, no such group

\* and forward(*channels, allow_commands=...)(callback)
ForwardCall(channels, allow_commands, callback) ==
    [channels |-> channels, allow_commands |-> allow_commands, callback |-> callback]
ForwardCalls ==
    { ForwardCall(<<"general">>, TRUE, "f1"),
      ForwardCall(<<"general", "test-bot">>, FALSE, "f2") }

\* the base lists Python accepts for a new dispatcher subclass: existing classes,
\* none twice, and no base listed before one of its own subclasses (no consistent MRO)
BaseLists ==
    LET made == Created(maps)
    IN  {<<b>> : b \in made}
        \cup {bs \in {<<b1, b2>> : b1 \in made, b2 \in made} :
                   bs[1] # bs[2] /\ bs[1] \notin Ancestors(maps, bs[2])}

-----------------------------------------------------------------------------
(* cast_using_type_hints *)

\* a value of a keyword argument: None, a string, or an int
NoneValue == [type |-> "None", str |-> <<>>, int |-> 0]
StrValue(s) == [type |-> "str", str |-> s, int |-> 0]
IntValue(n) == [type |-> "int", str |-> <<>>, int |-> n]

Digits == {"0", "1", "2", "3", "4", "5", "6", "7", "8", "9"}
DigitOf(ch) ==
    CASE ch = "0" -> 0 [] ch = "1" -> 1 [] ch = "2" -> 2 [] ch = "3" -> 3 [] ch = "4" -> 4
      [] ch = "5" -> 5 [] ch = "6" -> 6 [] ch = "7" -> 7 [] ch = "8" -> 8 [] ch = "9" -> 9

RECURSIVE DecimalOf(_)
DecimalOf(s) ==
    IF s = <<>> THEN 0 ELSE 10 * DecimalOf(SubSeq(s, 1, Len(s) - 1)) + DigitOf(s[Len(s)])

\* type_hints[key](value): str(value) is value, int(value) reads a decimal
\* number and raises ValueError on anything else
ApplyType(type, s) ==
    IF type = "int"
    THEN IF s # <<>> /\ \A i \in 1..Len(s) : s[i] \in Digits
         THEN [raised |-> FALSE, value |-> IntValue(DecimalOf(s))]
         ELSE [raised |-> TRUE, value |-> NoneValue]
    ELSE [raised |-> FALSE, value |-> StrValue(s)]

\* CastItem without the test for None: an absent group is cast like a string
CastItem_CastsNone(type_hints, key, value) ==
    IF key \notin DOMAIN type_hints
    THEN [raised |-> FALSE, value |-> value]
    ELSE ApplyType(type_hints[key], value.str)

\* one item of the dict comprehension
CastItem(type_hints, key, value) ==
    IF value.type = "None" \/ key \notin DOMAIN type_hints
    THEN [raised |-> FALSE, value |-> value]
    ELSE ApplyType(type_hints[key], value.str)

cast_using_type_hints(type_hints, kwargs) ==
    IF \E key \in DOMAIN kwargs : CastItem(type_hints, key, kwargs[key]).raised
    THEN [raised |-> TRUE, value |-> EmptyDict]
    ELSE [raised |-> FALSE,
          value |-> [key \in DOMAIN kwargs |-> CastItem(type_hints, key, kwargs[key]).value]]

-----------------------------------------------------------------------------
(* cmd.regexp.match(payload) for the pattern family above: the match starts  *)
(* at position one and need not reach the end of the payload.                *)

\* the length of the longest run of non-whitespace characters of s from pos
RECURSIVE NonSpaceRun(_, _)
NonSpaceRun(s, pos) ==
    IF pos > Len(s) \/ s[pos] = Space THEN 0 ELSE 1 + NonSpaceRun(s, pos + 1)

RECURSIVE MatchFrom(_, _, _, _, _)
MatchFrom(groups, i, s, pos, found) ==
    IF i > Len(groups) THEN [matched |-> TRUE, groupdict |-> found]
    ELSE LET g == groups[i]
             sep == IF i = 1 THEN 0 ELSE 1
             sepOk == i = 1 \/ (pos <= Len(s) /\ s[pos] = Space)
             run == IF sepOk THEN NonSpaceRun(s, pos + sep) ELSE 0
         IN  IF run > 0
             THEN MatchFrom(groups, i + 1, s, pos + sep + run,
                            DictPut(found, g.name,
                                    StrValue(SubSeq(s, pos + sep, pos + sep + run - 1))))
             ELSE IF g.optional
             THEN MatchFrom(groups, i + 1, s, pos, DictPut(found, g.name, NoneValue))
             ELSE [matched |-> FALSE, groupdict |-> EmptyDict]

\* match and match.groupdict()
RegexpMatch(regexp, payload) == MatchFrom(regexp.groups, 1, payload, 1, EmptyDict)

-----------------------------------------------------------------------------
(* on_message, lines 116-124: invocation-style detection *)

SelfId == <<"1">>      \* self.user.id
UserId == <<"2">>      \* another account's id

\* f"<@{id}>"
Mention(id) == <<"<", "@">> \o id \o <<">">>

\* cmd_name, *payload = parts, then payload = payload[0] if payload else "";
\* unpacking an empty list raises ValueError
Unpack(parts) ==
    IF parts = <<>>
    THEN [kind |-> "ValueError", cmd_name |-> <<>>, payload |-> <<>>]
    ELSE [kind |-> "command", cmd_name |-> parts[1],
          payload |-> IF Len(parts) > 1 THEN parts[2] ELSE <<>>]

\* DetectStyle with the channel kind looked at before the mention
DetectStyle_ChannelFirst(content, prefix, public) ==
    IF StartsWith(content, prefix)
    THEN Unpack(SplitSpace(DropFirst(content, 1), 1))
    ELSE IF public
    THEN [kind |-> "return", cmd_name |-> <<>>, payload |-> <<>>]
    ELSE IF StartsWith(content, Mention(SelfId))
    THEN Unpack(Tail(SplitSpace(content, 2)))
    ELSE Unpack(SplitSpace(content, 1))

DetectStyle(content, prefix, public) ==
    IF StartsWith(content, prefix)
    THEN Unpack(SplitSpace(DropFirst(content, 1), 1))
    ELSE IF StartsWith(content, Mention(SelfId))
    THEN Unpack(Tail(SplitSpace(content, 2)))
    ELSE IF public
    THEN [kind |-> "return", cmd_name |-> <<>>, payload |-> <<>>]
    ELSE Unpack(SplitSpace(content, 1))

-----------------------------------------------------------------------------
(* Placeholders for the parts of the state a specification does not use *)

NoMessage == [channel |-> [name |-> "", public |-> TRUE], author |-> "", roles |-> {},
              content |-> <<>>]
NoLocals == [detected |-> FALSE, cmd_name |-> <<>>, payload |-> <<>>, callback |-> "",
             kwargs |-> EmptyDict, ending |-> ""]
Tasks == {1}

IdleTasks ==
    /\ pc = [t \in Tasks |-> "idle"]
    /\ msg = [t \in Tasks |-> NoMessage]
    /\ idx = [t \in Tasks |-> 0]
    /\ locals = [t \in Tasks |-> NoLocals]
    /\ trace = [t \in Tasks |-> <<>>]
    /\ escaped = [t \in Tasks |-> ""]

NoParse == /\ pin = [content |-> <<>>, public |-> TRUE]
           /\ pout = [kind |-> "none", cmd_name |-> <<>>, payload |-> <<>>]
NoCast == /\ cin = [type_hints |-> EmptyDict, kwargs |-> EmptyDict]
          /\ cout = [kind |-> "none", value |-> EmptyDict]
\* on_ready was not called yet (__init__, line 99: connected_ = False)
NoLoad == /\ connected_ = FALSE
          /\ plugins = <<>>
          /\ cursor = 0
          /\ executed = <<>>
          /\ onReady = "idle"
          /\ lastReady = "none"
          /\ loadRuns = 0
\* on_ready was called once and has ended
AlreadyLoaded == /\ connected_ = TRUE
                 /\ plugins = <<>>
                 /\ cursor = 0
                 /\ executed = <<>>
                 /\ onReady = "done"
                 /\ lastReady = "loads"
                 /\ loadRuns = 1

-----------------------------------------------------------------------------
(* SpecReg: class creation and registration calls, from the imported module *)

\* class <next>(*bases, metaclass=DispatcherMeta)
NewClass(bases) ==
    /\ Cardinality(Created(maps)) < Len(ClassOrder)
    /\ bases \in BaseLists
    /\ LET cls == ClassOrder[Cardinality(Created(maps)) + 1]
       IN  /\ maps' = NewMaps(maps, cls, bases)
           /\ lastCall' = [NoCall EXCEPT !.op = "new", !.cls = cls]
    /\ UNCHANGED <<commands, forwards, nCalls>>
    /\ UNCHANGED <<PREFIX, taskVars, parseVars, castVars, loadVars>>

\* cls.set_command(channels, roles, pattern, callback), or the decorator
\* cls.register(channels, roles, pattern)(callback)
SetCommand(cls, call) ==
    /\ nCalls < MaxCalls
    /\ cls \in Created(maps)
    /\ commands' = set_command(commands, cls, call.channels, call.roles, call.pattern,
                               call.callback)
    /\ lastCall' = [op |-> "set_command", cls |-> cls,
                    key |-> Strip(FuncName(call.callback), "_"),
                    result |-> SetCommandError(call.pattern, call.callback),
                    pattern |-> call.pattern, callback |-> call.callback]
    /\ nCalls' = nCalls + 1
    /\ UNCHANGED <<maps, forwards>>
    /\ UNCHANGED <<PREFIX, taskVars, parseVars, castVars, loadVars>>

\* cls.add_forward(channels, allow_commands, callback), or the decorator
\* cls.forward(*channels, allow_commands=...)(callback)
AddForward(cls, call) ==
    /\ nCalls < MaxCalls
    /\ cls \in Created(maps)
    /\ forwards' = add_forward(maps, forwards, cls, call.channels, call.allow_commands,
                               call.callback)
    /\ lastCall' = [NoCall EXCEPT !.op = "add_forward", !.cls = cls,
                                !.callback = call.callback]
    /\ nCalls' = nCalls + 1
    /\ UNCHANGED <<maps, commands>>
    /\ UNCHANGED <<PREFIX, taskVars, parseVars, castVars, loadVars>>

InitReg ==
    /\ maps = ImportedMaps
    /\ commands = ImportedCommands
    /\ forwards = NoTables
    /\ lastCall = NoCall
    /\ nCalls = 0
    /\ PREFIX = <<"!">>
    /\ IdleTasks /\ NoParse /\ NoCast /\ NoLoad

NextReg ==
    \/ \E bases \in BaseLists : NewClass(bases)
    \/ \E cls \in Classes, call \in CommandCalls : SetCommand(cls, call)
    \/ \E cls \in Classes, call \in ForwardCalls : AddForward(cls, call)

SpecReg == InitReg /\ [][NextReg]_vars

-----------------------------------------------------------------------------
(* on_message *)

ClientClass == "TheNumberOne"      \* thenumberone = TheNumberOne()

\* what on_message does that can be seen from outside it
Event(ev, kind, callback, channel, to, cmd_name, scope, pattern, kwargs) ==
    [ev |-> ev, kind |-> kind, callback |-> callback, channel |-> channel, to |-> to,
     cmd_name |-> cmd_name, scope |-> scope, pattern |-> pattern, kwargs |-> kwargs]
ForwardEv(callback) ==                    \* subbot.callback(message)
    Event("forward", "", callback, "", <<>>, <<>>, NoneScope, NonePattern, EmptyDict)
LookupEv(cmd_name) ==                     \* self.dispatcher.get(cmd_name)
    Event("lookup", "", "", "", <<>>, cmd_name, NoneScope, NonePattern, EmptyDict)
\* self.send_message(message.channel, text): to is the author the text addresses,
\* cmd_name, scope and pattern are what the text quotes
ReplyEv(kind, m, to, cmd_name, scope, pattern) ==
    Event("reply", kind, "", m.channel.name, to, cmd_name, scope, pattern, EmptyDict)
CallEv(callback, kwargs) ==               \* cmd.callback(message, **kwargs)
    Event("call", "", callback, "", <<>>, <<>>, NoneScope, NonePattern, kwargs)

\* self.forwarder.get(message.channel.name, [])
ForwardList(m) ==
    IF ChainHas(maps, forwards, ClientClass, m.channel.name)
    THEN ChainGet(maps, forwards, ClientClass, m.channel.name)
    ELSE <<>>

\* ChannelAllowed without the test of the channel
ChannelAllowed_Anywhere(cmd, m) == TRUE

\* line 132: cmd.channels is None or message.channel.name in cmd.channels
ChannelAllowed(cmd, m) == cmd.channels.none \/ m.channel.name \in cmd.channels.names

\* RoleAllowed without the test of the author's roles
RoleAllowed_Anyone(cmd, m) == TRUE

\* line 137: cmd.roles is None or one of the author's roles is named in cmd.roles
RoleAllowed(cmd, m) == cmd.roles.none \/ m.roles \cap cmd.roles.names # {}

\* lines 116-156: from the detection to the point where the callback is called.
\* next is what on_message does then: "return", "send" (await send_message, then
\* return), "raise" (an exception leaves on_message) or "call"
Outcome(events, next, exception, style, callback, kwargs) ==
    [events |-> events, next |-> next, exception |-> exception,
     locals |-> [detected |-> style.kind = "command", cmd_name |-> style.cmd_name,
                 payload |-> style.payload, callback |-> callback, kwargs |-> kwargs,
                 ending |-> ""]]

\* Deny without the reply
Deny_NoReply(style, m, kind, scope, pattern) ==
    Outcome(<<LookupEv(style.cmd_name)>>, "send", "", style, "", EmptyDict)

\* a denial: the lookup, then one reply to the channel that addresses the author,
\* and on_message returns once the reply is sent
Deny(style, m, kind, scope, pattern) ==
    Outcome(<<LookupEv(style.cmd_name),
              ReplyEv(kind, m, m.author, style.cmd_name, scope, pattern)>>,
            "send", "", style, "", EmptyDict)

Resolve(m, prefix) ==
    LET style == DetectStyle(m.content, prefix, m.channel.public)
        cmd_name == style.cmd_name
        found == ChainHas(maps, commands, ClientClass, cmd_name)
        cmd == ChainGet(maps, commands, ClientClass, cmd_name)
        match == RegexpMatch(cmd.regexp, style.payload)
        cast == cast_using_type_hints(get_type_hints(cmd.callback), match.groupdict)
        lookup == <<LookupEv(cmd_name)>>
    IN  IF style.kind = "ValueError"
        THEN Outcome(<<>>, "raise", "ValueError", style, "", EmptyDict)
        ELSE IF style.kind = "return"
        THEN Outcome(<<>>, "return", "", style, "", EmptyDict)
        ELSE IF ~found
        THEN Deny(style, m, "unknown", NoneScope, NonePattern)
        ELSE IF ~ChannelAllowed(cmd, m)
        THEN Deny(style, m, "channel", cmd.channels, NonePattern)
        ELSE IF ~RoleAllowed(cmd, m)
        THEN Deny(style, m, "role", cmd.roles, NonePattern)
        ELSE IF cmd.regexp.kind = "none"
        THEN Outcome(lookup \o <<CallEv(cmd.callback, EmptyDict)>>, "call", "", style,
                     cmd.callback, EmptyDict)
        ELSE IF ~match.matched
        THEN Deny(style, m, "pattern", NoneScope, cmd.regexp)
        ELSE IF cast.raised
        THEN Outcome(lookup, "raise", "ValueError", style, "", EmptyDict)
        ELSE Outcome(lookup \o <<CallEv(cmd.callback, cast.value)>>, "call", "", style,
                     cmd.callback, cast.value)

\* the reply of the except clause, line 164
InternalError(m) == ReplyEv("internal", m, <<>>, <<>>, NoneScope, NonePattern)

\* how a callback's call ends: it returns, or it raises
Endings == {"returns", "raises"}

\* OnMessage with the forward list fetched by setdefault instead of get: a channel
\* without subscriptions gets an empty list in the client class's own table
OnMessage_SetDefault(t, m) ==
    /\ pc[t] = "idle"
    /\ msg' = [msg EXCEPT ![t] = m]
    /\ pc' = [pc EXCEPT ![t] = IF m.author = SelfId THEN "done" ELSE "forward"]
    /\ forwards' = IF ChainHas(maps, forwards, ClientClass, m.channel.name) THEN forwards
                   ELSE [forwards EXCEPT ![ClientClass] = DictPut(@, m.channel.name, <<>>)]
    /\ UNCHANGED <<idx, locals, trace, escaped>>
    /\ UNCHANGED <<maps, commands, lastCall, nCalls, PREFIX, parseVars, castVars, loadVars>>

\* OnMessage without lines 104-105: the bot's own messages are processed too
OnMessage_NoSelfFilter(t, m) ==
    /\ pc[t] = "idle"
    /\ msg' = [msg EXCEPT ![t] = m]
    /\ pc' = [pc EXCEPT ![t] = "forward"]
    /\ UNCHANGED <<idx, locals, trace, escaped>>
    /\ UNCHANGED <<regVars, PREFIX, parseVars, castVars, loadVars>>

\* on_message is called with a message: line 104
OnMessage(t, m) ==
    /\ pc[t] = "idle"
    /\ msg' = [msg EXCEPT ![t] = m]
    /\ pc' = [pc EXCEPT ![t] = IF m.author = SelfId THEN "done" ELSE "forward"]
    /\ UNCHANGED <<idx, locals, trace, escaped>>
    /\ UNCHANGED <<regVars, PREFIX, parseVars, castVars, loadVars>>

\* AfterForward without line 113: the loop goes on after a subscription that
\* disallows commands
AfterForward_IgnoresAllow(t, subbot, ending) ==
    /\ pc' = [pc EXCEPT ![t] = IF ending = "raises" THEN "done" ELSE "forward"]
    /\ escaped' = [escaped EXCEPT ![t] = IF ending = "raises" THEN "Exception" ELSE @]

\* lines 113-114 and the loop's next turn, once subbot's callback has ended
AfterForward(t, subbot, ending) ==
    /\ pc' = [pc EXCEPT ![t] = IF ending = "raises" \/ ~subbot.allow_commands
                               THEN "done" ELSE "forward"]
    /\ escaped' = [escaped EXCEPT ![t] = IF ending = "raises" THEN "Exception" ELSE @]

\* one turn of the loop of line 107, up to the call of the callback: a coroutine
\* function is awaited, another callback runs to its end within the call
CallForward(t, ending) ==
    /\ pc[t] = "forward"
    /\ idx[t] < Len(ForwardList(msg[t]))
    /\ LET subbot == ForwardList(msg[t])[idx[t] + 1]
       IN  /\ idx' = [idx EXCEPT ![t] = @ + 1]
           /\ trace' = [trace EXCEPT ![t] = Append(@, ForwardEv(subbot.callback))]
           /\ IF iscoroutinefunction(subbot.callback)
              THEN /\ ending = "returns"
                   /\ pc' = [pc EXCEPT ![t] = "await_forward"]
                   /\ UNCHANGED escaped
              ELSE AfterForward(t, subbot, ending)
    /\ UNCHANGED <<msg, locals>>
    /\ UNCHANGED <<regVars, PREFIX, parseVars, castVars, loadVars>>

\* the awaited forward callback ends
ForwardReturn(t, ending) ==
    /\ pc[t] = "await_forward"
    /\ AfterForward(t, ForwardList(msg[t])[idx[t]], ending)
    /\ UNCHANGED <<msg, idx, locals, trace>>
    /\ UNCHANGED <<regVars, PREFIX, parseVars, castVars, loadVars>>

\* lines 157-164, once the command's callback has ended
AfterCall(t, events, ending) ==
    /\ trace' = [trace EXCEPT ![t] =
                    @ \o events \o (IF ending = "raises" THEN <<InternalError(msg[t])>> ELSE <<>>)]
    /\ pc' = [pc EXCEPT ![t] = IF ending = "raises" THEN "await_send" ELSE "done"]

\* lines 116-161, after the last forward: up to the first await
Dispatch(t, ending) ==
    /\ pc[t] = "forward"
    /\ idx[t] = Len(ForwardList(msg[t]))
    /\ LET r == Resolve(msg[t], PREFIX)
       IN  /\ escaped' = [escaped EXCEPT ![t] = r.exception]
           /\ CASE r.next = "call" /\ iscoroutinefunction(r.locals.callback) ->
                     /\ ending = "returns"
                     /\ locals' = [locals EXCEPT ![t] = r.locals]
                     /\ trace' = [trace EXCEPT ![t] = @ \o r.events]
                     /\ pc' = [pc EXCEPT ![t] = "await_handler"]
                [] r.next = "call" /\ ~iscoroutinefunction(r.locals.callback) ->
                     /\ locals' = [locals EXCEPT ![t] = [r.locals EXCEPT !.ending = ending]]
                     /\ AfterCall(t, r.events, ending)
                [] r.next = "send" ->
                     /\ ending = "returns"
                     /\ locals' = [locals EXCEPT ![t] = r.locals]
                     /\ trace' = [trace EXCEPT ![t] = @ \o r.events]
                     /\ pc' = [pc EXCEPT ![t] = "await_send"]
                [] OTHER ->
                     /\ ending = "returns"
                     /\ locals' = [locals EXCEPT ![t] = r.locals]
                     /\ trace' = [trace EXCEPT ![t] = @ \o r.events]
                     /\ pc' = [pc EXCEPT ![t] = "done"]
    /\ UNCHANGED <<msg, idx>>
    /\ UNCHANGED <<regVars, PREFIX, parseVars, castVars, loadVars>>

\* the awaited command callback ends: lines 159 and 162-164
HandlerReturn(t, ending) ==
    /\ pc[t] = "await_handler"
    /\ AfterCall(t, <<>>, ending)
    /\ locals' = [locals EXCEPT ![t].ending = ending]
    /\ UNCHANGED <<msg, idx, escaped>>
    /\ UNCHANGED <<regVars, PREFIX, parseVars, castVars, loadVars>>

\* the awaited send_message ends, and on_message returns
SendReturn(t) ==
    /\ pc[t] = "await_send"
    /\ pc' = [pc EXCEPT ![t] = "done"]
    /\ UNCHANGED <<msg, idx, locals, trace, escaped>>
    /\ UNCHANGED <<regVars, PREFIX, parseVars, castVars, loadVars>>

\* the task that ran on_message is gone; the client takes the next message
TaskEnds(t) ==
    /\ pc[t] = "done"
    /\ pc' = [pc EXCEPT ![t] = "idle"]
    /\ msg' = [msg EXCEPT ![t] = NoMessage]
    /\ idx' = [idx EXCEPT ![t] = 0]
    /\ locals' = [locals EXCEPT ![t] = NoLocals]
    /\ trace' = [trace EXCEPT ![t] = <<>>]
    /\ escaped' = [escaped EXCEPT ![t] = ""]
    /\ UNCHANGED <<regVars, PREFIX, parseVars, castVars, loadVars>>

-----------------------------------------------------------------------------
(* Spec: the client after its plugins are loaded, taking messages *)

MaxWords == 2       \* words of a message text after the command name

Prefixes == {<<"!">>, <<"!", "!">>}
Words == {<<"5">>, <<"x">>}
Unknown == <<"n", "o">>

RECURSIVE SpaceBefore(_)
SpaceBefore(words) ==
    IF words = <<>> THEN <<>> ELSE <<Space>> \o Head(words) \o SpaceBefore(Tail(words))

\* the texts of the messages: nothing, the prefix, or the mention of the bot with
\* or without a space after it; then a name or nothing; then words
Texts(prefix) ==
    {head \o name \o SpaceBefore(words) :
        head \in {<<>>, prefix, Mention(SelfId) \o <<Space>>, Mention(SelfId)},
        name \in {<<>>, ping, help, kick, roll, Unknown},
        words \in SeqsUpTo(Words, MaxWords)}

Channels == {[name |-> "general", public |-> TRUE], [name |-> "test-bot", public |-> TRUE],
             [name |-> "dm", public |-> FALSE]}

Messages(prefix) ==
    [channel : Channels, author : {SelfId, UserId}, roles : SUBSET RoleNames,
     content : Texts(prefix)]

\* the commands of the plugins: kick for admins on general, roll with an int
PluginCommands ==
    set_command(
        set_command(ImportedCommands, ClientClass, Scope({"general"}), Scope({"admin"}),
                    UserPattern, "kick"),
        ClientClass, NoneScope, NoneScope, RollPattern, "roll")

\* the forwards of the plugins, in the order of their registration
ForwardSetups ==
    { <<>>,
      <<ForwardCall(<<"general">>, TRUE, "f1"),
        ForwardCall(<<"general", "test-bot">>, FALSE, "f2"),
        ForwardCall(<<"general">>, TRUE, "f3")>>,
      <<ForwardCall(<<"general">>, TRUE, "f3"),
        ForwardCall(<<"general", "dm">>, TRUE, "f1")>> }

RECURSIVE LoadForwards(_, _)
LoadForwards(fwds, calls) ==
    IF calls = <<>> THEN fwds
    ELSE LoadForwards(add_forward(ImportedMaps, fwds, ClientClass, Head(calls).channels,
                                  Head(calls).allow_commands, Head(calls).callback),
                      Tail(calls))

Init ==
    /\ maps = ImportedMaps
    /\ commands = PluginCommands
    /\ forwards \in {LoadForwards(NoTables, calls) : calls \in ForwardSetups}
    /\ lastCall = NoCall
    /\ nCalls = 0
    /\ PREFIX \in Prefixes
    /\ IdleTasks /\ NoParse /\ NoCast /\ AlreadyLoaded

Next ==
    \/ \E t \in {u \in Tasks : pc[u] = "idle"} : \E m \in Messages(PREFIX) : OnMessage(t, m)
    \/ \E t \in Tasks, ending \in Endings : CallForward(t, ending)
    \/ \E t \in Tasks, ending \in Endings : ForwardReturn(t, ending)
    \/ \E t \in Tasks, ending \in Endings : Dispatch(t, ending)
    \/ \E t \in Tasks, ending \in Endings : HandlerReturn(t, ending)
    \/ \E t \in Tasks : SendReturn(t)
    \/ \E t \in Tasks : TaskEnds(t)

Spec == Init /\ [][Next]_vars

-----------------------------------------------------------------------------
(* SpecParse: the invocation-style detection on every text made of the      *)
(* prefix, the mention or nothing, followed by up to MaxTail characters     *)

ParseChars == {Space, "!", "a", "b"}

ParseTexts(prefix) ==
    {head \o tail : head \in {<<>>, prefix, Mention(SelfId)},
                    tail \in SeqsUpTo(ParseChars, MaxTail)}

\* lines 116-124 on pin
Detect ==
    /\ pout.kind = "none"
    /\ pout' = DetectStyle(pin.content, PREFIX, pin.public)
    /\ UNCHANGED <<pin, PREFIX, regVars, taskVars, castVars, loadVars>>

InitParse ==
    /\ PREFIX \in Prefixes
    /\ pin \in [content : ParseTexts(PREFIX), public : BOOLEAN]
    /\ pout = [kind |-> "none", cmd_name |-> <<>>, payload |-> <<>>]
    /\ maps = ImportedMaps /\ commands = ImportedCommands /\ forwards = NoTables
    /\ lastCall = NoCall /\ nCalls = 0
    /\ IdleTasks /\ NoCast /\ NoLoad

NextParse == Detect

SpecParse == InitParse /\ [][NextParse]_vars

-----------------------------------------------------------------------------
(* SpecCast: cast_using_type_hints on every dict of type hints and of raw   *)
(* values (None, or a string of up to MaxValLen characters) over two names  *)

CastKeys == {"a", "b"}
CastTypes == {"str", "int"}
CastChars == {"5", "x"}
RawValues == {NoneValue} \cup {StrValue(str) : str \in SeqsUpTo(CastChars, MaxValLen)}

DictsOver(keys, values) == UNION {[ks -> values] : ks \in SUBSET keys}

\* cast_using_type_hints(type_hints, kwargs) on cin
Cast ==
    /\ cout.kind = "none"
    /\ LET r == cast_using_type_hints(cin.type_hints, cin.kwargs)
       IN  cout' = [kind |-> IF r.raised THEN "raised" ELSE "returned", value |-> r.value]
    /\ UNCHANGED <<cin, PREFIX, regVars, taskVars, parseVars, loadVars>>

InitCast ==
    /\ cin \in [type_hints : DictsOver(CastKeys, CastTypes),
                kwargs : DictsOver(CastKeys, RawValues)]
    /\ cout = [kind |-> "none", value |-> EmptyDict]
    /\ maps = ImportedMaps /\ commands = ImportedCommands /\ forwards = NoTables
    /\ lastCall = NoCall /\ nCalls = 0
    /\ PREFIX = <<"!">>
    /\ IdleTasks /\ NoParse /\ NoLoad

NextCast == Cast

SpecCast == InitCast /\ [][NextCast]_vars

-----------------------------------------------------------------------------
(* Properties of on_message, checked under Spec *)

\* the events of one kind in a task's trace, in order
EventsOf(t, ev) == SelectSeq(trace[t], LAMBDA e : e.ev = ev)
Replies(t, kind) == SelectSeq(trace[t], LAMBDA e : e.ev = "reply" /\ e.kind = kind)

\* the task has looked a command up, replied or called a command callback
CommandStage(t) == \E i \in 1..Len(trace[t]) : trace[t][i].ev # "forward"

\* the position of the first subscription of list that disallows commands, 0 if none
FirstClosed(list) ==
    IF \E i \in 1..Len(list) : ~list[i].allow_commands
    THEN CHOOSE i \in 1..Len(list) :
            ~list[i].allow_commands /\ \A j \in 1..(i - 1) : list[j].allow_commands
    ELSE 0

\* the message of t has a non-bot author and on_message is at work on it
Working(t) == pc[t] # "idle" /\ msg[t].author # SelfId

\* C1: for a message not authored by the bot, the subscriptions of its channel are
\* invoked in the order of the effective forward list, one at a time, each at most
\* once, and never beyond the first one that disallows commands; after that one
\* nothing else runs for the message (no later subscription, no lookup, no reply,
\* no command callback), whatever its text. When on_message ends without a
\* subscription having raised, exactly s1..si have been invoked (all of them when
\* none disallows commands); a subscription that raises ends on_message there.
C1_ForwardOrder ==
    \A t \in Tasks : Working(t) =>
        LET list == ForwardList(msg[t])
            invoked == EventsOf(t, "forward")
            k == Len(invoked)
            closed == FirstClosed(list)
        IN  /\ k <= Len(list)
            /\ \A i \in 1..k : invoked[i].callback = list[i].callback
            /\ \A i \in 1..k : trace[t][i].ev = "forward"
            /\ \A i \in 1..(k - 1) : list[i].allow_commands
            /\ idx[t] = k
            /\ pc[t] = "await_forward" => k >= 1 /\ ~CommandStage(t)
            /\ (k >= 1 /\ ~list[k].allow_commands) =>
                    /\ pc[t] \in {"await_forward", "done"}
                    /\ ~CommandStage(t)
            /\ CommandStage(t) => k = Len(list) /\ closed = 0
            /\ (pc[t] = "done" /\ escaped[t] # "Exception") =>
                    k = IF closed = 0 THEN Len(list) ELSE closed

\* a message that looks like a command, on a channel with three subscriptions of
\* which the second disallows commands, ended after the first two
C1_Witness ==
    \E t \in Tasks :
        /\ Working(t) /\ pc[t] = "done" /\ escaped[t] = ""
        /\ msg[t].content = PREFIX \o ping
        /\ Len(ForwardList(msg[t])) = 3
        /\ FirstClosed(ForwardList(msg[t])) = 2
        /\ Len(trace[t]) = 2
        /\ trace[t][1].callback = "f1" /\ trace[t][2].callback = "f2"

\* the command the task resolved, and what the checks of lines 126-151 find for it
Found(t) == ChainHas(maps, commands, ClientClass, locals[t].cmd_name)
TheCmd(t) == ChainGet(maps, commands, ClientClass, locals[t].cmd_name)
TheMatch(t) == RegexpMatch(TheCmd(t).regexp, locals[t].payload)
ChannelOk(t) ==
    TheCmd(t).channels.none \/ msg[t].channel.name \in TheCmd(t).channels.names
RoleOk(t) ==
    TheCmd(t).roles.none \/ \E role \in msg[t].roles : role \in TheCmd(t).roles.names
PatternOk(t) == TheCmd(t).regexp.kind = "none" \/ TheMatch(t).matched
PassesChecks(t) ==
    locals[t].detected /\ Found(t) /\ ChannelOk(t) /\ RoleOk(t) /\ PatternOk(t)
CastRaises(t) ==
    /\ TheCmd(t).regexp.kind # "none"
    /\ \E key \in DOMAIN TheMatch(t).groupdict :
          /\ TheMatch(t).groupdict[key].type = "str"
          /\ key \in DOMAIN get_type_hints(TheCmd(t).callback)
          /\ ApplyType(get_type_hints(TheCmd(t).callback)[key],
                       TheMatch(t).groupdict[key].str).raised

\* C3: when a message passes the resolution, the scope checks and the pattern
\* match, and the casting of a captured group raises or the command's callback
\* raises, on_message sends exactly one internal-error reply to the channel and
\* returns: no exception leaves it.
C3_ExceptionsContained ==
    \A t \in Tasks :
        (pc[t] = "done" /\ PassesChecks(t)
            /\ (CastRaises(t) \/ locals[t].ending = "raises")) =>
        /\ escaped[t] = ""
        /\ Len(Replies(t, "internal")) = 1
        /\ Replies(t, "internal")[1].channel = msg[t].channel.name

\* C4: a command callback is called for a message only if the name resolves, the
\* channel scope is None or holds the channel, the role scope is None or names a
\* role of the author, and there is no pattern or it matches the payload; and a
\* command whose role check fails for the author yields exactly one reply, which
\* addresses the author and lists the allowed roles, and no call.
C4_CallOnlyIfAllowed ==
    \A t \in Tasks : Working(t) =>
        /\ \A i \in 1..Len(trace[t]) : trace[t][i].ev = "call" =>
              /\ PassesChecks(t)
              /\ trace[t][i].callback = TheCmd(t).callback
              /\ Len(EventsOf(t, "call")) = 1
        /\ (locals[t].detected /\ Found(t) /\ ChannelOk(t) /\ ~RoleOk(t)) =>
              /\ EventsOf(t, "call") = <<>>
              /\ EventsOf(t, "reply") =
                    <<ReplyEv("role", msg[t], msg[t].author, locals[t].cmd_name,
                              TheCmd(t).roles, NonePattern)>>
              /\ escaped[t] = ""

\* kick, for admins only, asked for on general by a member: denied, not called
C4_Witness ==
    \E t \in Tasks :
        /\ pc[t] = "done"
        /\ msg[t].content = PREFIX \o kick \o <<Space, "x">>
        /\ PREFIX = <<"!">>
        /\ msg[t].channel.name = "general" /\ msg[t].roles = {"member"}
        /\ locals[t].cmd_name = kick
        /\ Len(Replies(t, "role")) = 1
        /\ Replies(t, "role")[1].scope = Scope({"admin"})
        /\ EventsOf(t, "call") = <<>>

\* C5: a message whose detected command name is not in the registry gets exactly
\* one reply, sent to its channel, which addresses the author and names the
\* attempted command; no command callback is called, no exception leaves
\* on_message, and the task ends so that the client takes the next message.
C5_UnknownCommand ==
    \A t \in Tasks : (Working(t) /\ locals[t].detected /\ ~Found(t)) =>
        /\ EventsOf(t, "reply") =
              <<ReplyEv("unknown", msg[t], msg[t].author, locals[t].cmd_name,
                        NoneScope, NonePattern)>>
        /\ EventsOf(t, "call") = <<>>
        /\ escaped[t] = ""
        /\ pc[t] \in {"await_send", "done"}
        /\ pc[t] = "await_send" => ENABLED SendReturn(t)
        /\ pc[t] = "done" => ENABLED TaskEnds(t)

\* "!no 5" on general: one reply naming "no", then the task is over
C5_Witness ==
    \E t \in Tasks :
        /\ pc[t] = "done" /\ escaped[t] = ""
        /\ PREFIX = <<"!">>
        /\ msg[t].content = PREFIX \o Unknown \o <<Space, "5">>
        /\ locals[t].cmd_name = Unknown
        /\ Len(Replies(t, "unknown")) = 1
        /\ Replies(t, "unknown")[1].cmd_name = Unknown
        /\ Replies(t, "unknown")[1].to = UserId

\* the text before the first space of s, and the text after that space
FirstToken(s) == SubSeq(s, 1, NonSpaceRun(s, 1))
RestAfterToken(s) == DropFirst(s, NonSpaceRun(s, 1) + 1)

\* the text starts with neither the prefix nor the mention of the bot
Plain(content) == ~StartsWith(content, PREFIX) /\ ~StartsWith(content, Mention(SelfId))

\* C8: a message on a public channel whose text starts with neither the prefix nor
\* the mention ends after the forwarding pass: no lookup, no reply, no command
\* callback; the same text on a private channel is resolved as a command whose
\* name is the first token of the text and whose payload is the remainder; and a
\* text that starts with the prefix or the mention is never discarded that way,
\* on whatever channel (the prefix and the mention come before the channel kind).
C8_PlainTextByChannelKind ==
    \A t \in Tasks : Working(t) =>
        LET m == msg[t]
            passed == pc[t] = "done" /\ escaped[t] # "Exception"
                      /\ FirstClosed(ForwardList(m)) = 0
        IN  /\ (Plain(m.content) /\ m.channel.public) =>
                  /\ ~CommandStage(t) /\ ~locals[t].detected
                  /\ pc[t] \in {"forward", "await_forward", "done"}
                  /\ escaped[t] \in {"", "Exception"}
            /\ (Plain(m.content) /\ ~m.channel.public /\ CommandStage(t)) =>
                  /\ EventsOf(t, "lookup") = <<LookupEv(FirstToken(m.content))>>
                  /\ locals[t].cmd_name = FirstToken(m.content)
                  /\ locals[t].payload = RestAfterToken(m.content)
            /\ (Plain(m.content) /\ ~m.channel.public /\ passed) =>
                  locals[t].detected /\ CommandStage(t)
            /\ (passed /\ escaped[t] = "" /\ ~CommandStage(t)) =>
                  Plain(m.content) /\ m.channel.public

\* "roll 5" on general, forwarded to two subscriptions and then dropped
C8_Witness ==
    \E t \in Tasks :
        /\ pc[t] = "done" /\ escaped[t] = ""
        /\ msg[t].author = UserId
        /\ msg[t].channel.name = "general" /\ msg[t].channel.public
        /\ msg[t].content = roll \o <<Space, "5">>
        /\ Len(trace[t]) = 2 /\ ~CommandStage(t)

-----------------------------------------------------------------------------
(* Properties of the invocation-style detection, checked under SpecParse *)

\* C6: for a text that starts with the prefix, whatever the prefix's length, the
\* command name is the first token after the whole prefix and the payload is the
\* remainder of the text.
C6_NameFollowsPrefix ==
    (pout.kind # "none" /\ StartsWith(pin.content, PREFIX)) =>
        /\ pout.kind = "command"
        /\ pout.cmd_name = FirstToken(DropFirst(pin.content, Len(PREFIX)))
        /\ pout.payload = RestAfterToken(DropFirst(pin.content, Len(PREFIX)))

\* the text after the mention and the space that ends it, if there is one
AfterMention(content) ==
    LET rest == DropFirst(content, Len(Mention(SelfId)))
    IN  IF rest # <<>> /\ Head(rest) = Space THEN Tail(rest) ELSE rest

\* C7: for a text that starts with the mention of the bot and not with the prefix,
\* the command name used for the resolution is the first token after the mention
\* and the payload is the whole remainder of the text after that token.
C7_NameFollowsMention ==
    (pout.kind = "command" /\ ~StartsWith(pin.content, PREFIX)
        /\ StartsWith(pin.content, Mention(SelfId))) =>
        /\ pout.cmd_name = FirstToken(AfterMention(pin.content))
        /\ pout.payload = RestAfterToken(AfterMention(pin.content))

-----------------------------------------------------------------------------
(* Properties of cast_using_type_hints, checked under SpecCast *)

\* the call raises when a type raises on a present string
CastFails(type_hints, kwargs) ==
    \E key \in DOMAIN kwargs \cap DOMAIN type_hints :
        kwargs[key].type = "str" /\ ApplyType(type_hints[key], kwargs[key].str).raised

\* C9: the result has exactly the keys of the raw values; None stays None even
\* with a type declared; a present string with a declared type is replaced by the
\* type applied to it (the call raises when the type does); a present string with
\* no declared type is returned unchanged. Groups {a: "5", b: None} with int
\* declared for a only give {a: 5, b: None}.
C9_CastByTypeHints ==
    cout.kind # "none" =>
        /\ cout.kind = IF CastFails(cin.type_hints, cin.kwargs) THEN "raised" ELSE "returned"
        /\ cout.kind = "returned" =>
              /\ DOMAIN cout.value = DOMAIN cin.kwargs
              /\ \A key \in DOMAIN cin.kwargs :
                    LET raw == cin.kwargs[key]
                    IN  /\ raw.type = "None" => cout.value[key] = NoneValue
                        /\ (raw.type = "str" /\ key \notin DOMAIN cin.type_hints) =>
                              cout.value[key] = raw
                        /\ (raw.type = "str" /\ key \in DOMAIN cin.type_hints) =>
                              cout.value[key] = ApplyType(cin.type_hints[key], raw.str).value
        /\ (cin.type_hints = [key \in {"a"} |-> "int"]
              /\ cin.kwargs = [key \in {"a", "b"} |->
                                 IF key = "a" THEN StrValue(<<"5">>) ELSE NoneValue]) =>
              /\ cout.kind = "returned"
              /\ cout.value = [key \in {"a", "b"} |->
                                 IF key = "a" THEN IntValue(5) ELSE NoneValue]

\* the call on {a: "5", b: None} with hints {a: int, b: int} has returned
C9_Witness ==
    /\ cout.kind = "returned"
    /\ cin.type_hints = [key \in {"a", "b"} |-> "int"]
    /\ cin.kwargs = [key \in {"a", "b"} |-> IF key = "a" THEN StrValue(<<"5">>) ELSE NoneValue]
    /\ cout.value["a"] = IntValue(5) /\ cout.value["b"] = NoneValue

-----------------------------------------------------------------------------
(* Properties of the registries, checked under SpecReg *)

\* the classes whose table a lookup from cls goes through: cls and its ancestors
Lineage(cls) == {cls} \cup Ancestors(maps, cls)

\* C2: when a name is registered at an ancestor A and at a descendant B of A, the
\* lookup of the name from B, and from every dispatcher D that extends B, gives
\* B's definition (stated for the D where no class nearer to D than B, that is no
\* class of D's lineage outside B's, registers the name too).
C2_DescendantShadowsAncestor ==
    \A A \in Created(maps), B \in Created(maps), D \in Created(maps) :
        \A name \in DOMAIN commands[A] \cap DOMAIN commands[B] :
            (/\ A \in Ancestors(maps, B)
             /\ B \in Lineage(D)
             /\ \A X \in Lineage(D) \ Lineage(B) : name \notin DOMAIN commands[X]) =>
            ChainGet(maps, commands, D, name) = commands[B][name]

\* C10: a set_command call that ends with one of the two ValueErrors (no
\* positional parameter; a named group without a keyword parameter) leaves every
\* class's command table, and so every effective registry, as it was before the
\* call, a previous entry of the same name included.
C10_FailedRegistrationChangesNothing ==
    [][(/\ nCalls' = nCalls + 1
        /\ lastCall'.op = "set_command"
        /\ lastCall'.result \in {"ValueError:signature", "ValueError:groups"}) =>
       (/\ commands' = commands
        /\ maps' = maps
        /\ forwards' = forwards
        /\ \A cls \in Created(maps), name \in {ping, help, kick, roll} :
              /\ ChainHas(maps, commands, cls, name)' = ChainHas(maps, commands, cls, name)
              /\ ChainHas(maps, commands, cls, name) =>
                    ChainGet(maps, commands, cls, name)' = ChainGet(maps, commands, cls, name))]_vars

\* a subclass that had registered ping (callback _ping_) has just been refused a
\* second ping whose pattern names a group the callback has no parameter for
C10_Witness ==
    /\ lastCall.op = "set_command" /\ lastCall.result = "ValueError:groups"
    /\ lastCall.key = ping /\ lastCall.cls = "Sub1"
    /\ ping \in DOMAIN commands["Sub1"]
    /\ commands["Sub1"][ping].callback = "_ping_"

\* the call of C11: a non-empty pattern, a callback that has a positional parameter
\* and no **kwargs, a keyword parameter for every named group, and keyword
\* parameters that no group names
UnusedKeywords(pattern, callback) ==
    LET fap == getfullargspec(callback)
    IN  /\ fap.args >= 1 \/ fap.varargs
        /\ Truthy(pattern) /\ ~fap.varkw
        /\ args_re_findall(pattern) \subseteq fap.kwonlyargs
        /\ fap.kwonlyargs \ args_re_findall(pattern) # {}

\* C11: a set_command call with a non-empty pattern and a callback without
\* **kwargs, where every named group has a keyword parameter and the callback has
\* keyword parameters that no group names, does not fail: the call ends normally
\* and the command is in the class's own table, with the call's callback.
C11_UnusedKeywordsOnlyLogged ==
    (lastCall.op = "set_command" /\ UnusedKeywords(lastCall.pattern, lastCall.callback)) =>
        /\ lastCall.result = ""
        /\ lastCall.key \in DOMAIN commands[lastCall.cls]
        /\ commands[lastCall.cls][lastCall.key].callback = lastCall.callback

\* C12: add_forward on a class D changes only D's own forward table: the table of
\* every other class, and so the list every ancestor resolves for every channel,
\* is the same after the call as before, also when an ancestor already has
\* subscriptions on the channel.
C12_AddForwardOwnTableOnly ==
    [][(nCalls' = nCalls + 1 /\ lastCall'.op = "add_forward") =>
       \A A \in Classes \ {lastCall'.cls} : forwards'[A] = forwards[A]]_vars

-----------------------------------------------------------------------------
(* on_ready and the event loop: SpecLoop                                     *)
(*                                                                           *)
(* The client's coroutines run on one event loop: a coroutine runs until    *)
(* its next await, and only then another one runs. on_ready has no await    *)
(* from line 173 to line 187; on_message has none but the awaited forward,  *)
(* command callback and send_message.                                        *)

MaxFiles == 2       \* entries of the plugins directory
MaxLoads == 2       \* starts of the plugin loading (the code starts it once)

LoopTasks == {1, 2}

\* an entry of the plugins directory: its name is stem + ext; isfile is what
\* os.path.isfile says of it; broken: importing it raises
DirEntry(stem, ext, file, broken) ==
    [stem |-> stem, ext |-> ext, isfile |-> file, broken |-> broken]
DirEntries ==
    { DirEntry("__init__", ".py", TRUE, FALSE),     \* the package initializer
      DirEntry("notes", ".txt", TRUE, FALSE),       \* a file that is no unit
      DirEntry("old", ".py", FALSE, FALSE) }        \* a directory named old.py
    \cup { DirEntry(stem, ".py", TRUE, broken) :
              stem \in {"kick", "echo", "log"}, broken \in BOOLEAN }

\* the listings: up to MaxFiles entries, no name twice
Listings ==
    { l \in SeqsUpTo(DirEntries, MaxFiles) :
         \A i \in 1..Len(l), j \in 1..Len(l) : i # j => l[i].stem # l[j].stem }

\* line 179
Loadable(e) == e.isfile /\ ~(e.stem = "__init__" /\ e.ext = ".py") /\ e.ext = ".py"

\* what the body of a unit registers, with the decorators of TheNumberOne
\*   kick.py: @TheNumberOne.register(["general"], ["admin"], r"(?P<user>\S+)")  def kick
\*   echo.py: @TheNumberOne.forward("general")  async def f1
\*   log.py:  @TheNumberOne.forward("test-bot", allow_commands=False)  def f2
UnitCommands(stem) ==
    IF stem = "kick"
    THEN <<CommandCall(Scope({"general"}), Scope({"admin"}), UserPattern, "kick")>>
    ELSE <<>>
UnitForwards(stem) ==
    CASE stem = "echo" -> <<ForwardCall(<<"general">>, TRUE, "f1")>>
      [] stem = "log"  -> <<ForwardCall(<<"test-bot">>, FALSE, "f2")>>
      [] OTHER         -> <<>>

RECURSIVE LoadCommands(_, _)
LoadCommands(cmds, calls) ==
    IF calls = <<>> THEN cmds
    ELSE LoadCommands(set_command(cmds, "TheNumberOne", Head(calls).channels,
                                  Head(calls).roles, Head(calls).pattern,
                                  Head(calls).callback),
                      Tail(calls))

\* sys.modules: the units that were imported
Modules == {executed[i] : i \in 1..Len(executed)}

\* the plugin loop of on_ready is over (line 187 is reached)
LoadComplete == onReady \in {"purge", "done"}

\* a coroutine is running, between two awaits: nothing else runs meanwhile.
\* "blocked" is a task inside a callback that is no coroutine and does not return
Running(u) == pc[u] \in {"forward", "blocked"}
Yielding(t) == onReady # "loading" /\ \A u \in LoopTasks \ {t} : ~Running(u)

\* ShouldLoad without the flag
ShouldLoad_Always(flag) == TRUE

\* line 173: if not self.connected_
ShouldLoad(flag) == ~flag

\* on_ready is called: lines 173-177
Ready ==
    /\ onReady # "loading" /\ \A u \in LoopTasks : ~Running(u)
    /\ ShouldLoad(connected_) => loadRuns < MaxLoads
    /\ IF ShouldLoad(connected_)
       THEN /\ connected_' = TRUE
            /\ onReady' = "loading"
            /\ cursor' = 0
            /\ loadRuns' = loadRuns + 1
            /\ lastReady' = "loads"
       ELSE /\ lastReady' = "ignored"
            /\ UNCHANGED <<connected_, onReady, cursor, loadRuns>>
    /\ UNCHANGED <<plugins, executed>>
    /\ UNCHANGED <<regVars, PREFIX, taskVars, parseVars, castVars>>

\* one turn of the loop of line 178: the entry is skipped, or imported. An import
\* of a unit that is in sys.modules runs nothing; an import that raises ends the
\* loop, the try being around the whole loop (lines 177 and 184-185)
ImportNext ==
    /\ onReady = "loading"
    /\ cursor < Len(plugins)
    /\ LET e == plugins[cursor + 1]
       IN  IF ~Loadable(e) \/ e.stem \in Modules
           THEN /\ cursor' = cursor + 1
                /\ UNCHANGED <<executed, onReady, commands, forwards>>
           ELSE IF e.broken
           THEN /\ onReady' = "purge"
                /\ UNCHANGED <<cursor, executed, commands, forwards>>
           ELSE /\ cursor' = cursor + 1
                /\ executed' = Append(executed, e.stem)
                /\ commands' = LoadCommands(commands, UnitCommands(e.stem))
                /\ forwards' = LoadForwards(forwards, UnitForwards(e.stem))
                /\ UNCHANGED onReady
    /\ UNCHANGED <<connected_, plugins, lastReady, loadRuns>>
    /\ UNCHANGED <<maps, lastCall, nCalls, PREFIX, taskVars, parseVars, castVars>>

\* the loop has gone through the listing: lines 187-188, up to the await
LoadEnds ==
    /\ onReady = "loading"
    /\ cursor = Len(plugins)
    /\ onReady' = "purge"
    /\ UNCHANGED <<connected_, plugins, cursor, executed, lastReady, loadRuns>>
    /\ UNCHANGED <<regVars, PREFIX, taskVars, parseVars, castVars>>

\* the awaited purge_from ends, and on_ready returns
PurgeReturn ==
    /\ onReady = "purge"
    /\ Yielding(0)
    /\ onReady' = "done"
    /\ UNCHANGED <<connected_, plugins, cursor, executed, lastReady, loadRuns>>
    /\ UNCHANGED <<regVars, PREFIX, taskVars, parseVars, castVars>>

\* line 112: the forward callback is no coroutine function and does not return
ForwardHangs(t) ==
    /\ pc[t] = "forward"
    /\ idx[t] < Len(ForwardList(msg[t]))
    /\ LET subbot == ForwardList(msg[t])[idx[t] + 1]
       IN  /\ ~iscoroutinefunction(subbot.callback)
           /\ idx' = [idx EXCEPT ![t] = @ + 1]
           /\ trace' = [trace EXCEPT ![t] = Append(@, ForwardEv(subbot.callback))]
           /\ pc' = [pc EXCEPT ![t] = "blocked"]
    /\ UNCHANGED <<msg, locals, escaped>>
    /\ UNCHANGED <<regVars, PREFIX, parseVars, castVars, loadVars>>

\* line 161: the command callback is no coroutine function and does not return
HandlerHangs(t) ==
    /\ pc[t] = "forward"
    /\ idx[t] = Len(ForwardList(msg[t]))
    /\ LET r == Resolve(msg[t], PREFIX)
       IN  /\ r.next = "call" /\ ~iscoroutinefunction(r.locals.callback)
           /\ locals' = [locals EXCEPT ![t] = r.locals]
           /\ trace' = [trace EXCEPT ![t] = @ \o r.events]
           /\ pc' = [pc EXCEPT ![t] = "blocked"]
    /\ UNCHANGED <<msg, idx, escaped>>
    /\ UNCHANGED <<regVars, PREFIX, parseVars, castVars, loadVars>>

\* the messages of SpecLoop
Text(content, channel, public, author, roles) ==
    [content |-> content, channel |-> [name |-> channel, public |-> public],
     author |-> author, roles |-> roles]
LoopMessages ==
    { Text(<<"!">> \o kick \o <<Space, "x">>, "general", TRUE, UserId, {"admin"}),
      Text(<<"!">> \o ping, "general", TRUE, UserId, {"member"}),
      Text(<<"h", "i">>, "test-bot", TRUE, UserId, {"member"}),
      Text(<<"!">> \o ping, "general", TRUE, SelfId, {}) }

\* the steps of the on_message that task t runs
TaskStep(t) ==
    /\ Yielding(t)
    /\ \/ \E m \in LoopMessages : OnMessage(t, m)
       \/ \E ending \in Endings : CallForward(t, ending)
       \/ \E ending \in Endings : ForwardReturn(t, ending)
       \/ \E ending \in Endings : Dispatch(t, ending)
       \/ \E ending \in Endings : HandlerReturn(t, ending)
       \/ SendReturn(t)
       \/ TaskEnds(t)
       \/ ForwardHangs(t)
       \/ HandlerHangs(t)

InitLoop ==
    /\ maps = ImportedMaps
    /\ commands = ImportedCommands
    /\ forwards = NoTables
    /\ lastCall = NoCall
    /\ nCalls = 0
    /\ PREFIX = <<"!">>
    /\ pc = [t \in LoopTasks |-> "idle"]
    /\ msg = [t \in LoopTasks |-> NoMessage]
    /\ idx = [t \in LoopTasks |-> 0]
    /\ locals = [t \in LoopTasks |-> NoLocals]
    /\ trace = [t \in LoopTasks |-> <<>>]
    /\ escaped = [t \in LoopTasks |-> ""]
    /\ NoParse /\ NoCast
    /\ connected_ = FALSE
    /\ plugins \in Listings
    /\ cursor = 0
    /\ executed = <<>>
    /\ onReady = "idle"
    /\ lastReady = "none"
    /\ loadRuns = 0

NextLoop ==
    \/ Ready
    \/ ImportNext
    \/ LoadEnds
    \/ PurgeReturn
    \/ \E t \in LoopTasks : Yielding(t) /\ \E m \in LoopMessages : OnMessage(t, m)
    \/ \E t \in LoopTasks, ending \in Endings : Yielding(t) /\ CallForward(t, ending)
    \/ \E t \in LoopTasks, ending \in Endings : Yielding(t) /\ ForwardReturn(t, ending)
    \/ \E t \in LoopTasks, ending \in Endings : Yielding(t) /\ Dispatch(t, ending)
    \/ \E t \in LoopTasks, ending \in Endings : Yielding(t) /\ HandlerReturn(t, ending)
    \/ \E t \in LoopTasks : Yielding(t) /\ SendReturn(t)
    \/ \E t \in LoopTasks : Yielding(t) /\ TaskEnds(t)
    \/ \E t \in LoopTasks : Yielding(t) /\ ForwardHangs(t)
    \/ \E t \in LoopTasks : Yielding(t) /\ HandlerHangs(t)

SpecLoop == InitLoop /\ [][NextLoop]_vars

-----------------------------------------------------------------------------
(* Properties of on_ready and of the event loop, checked under SpecLoop *)

\* C13: once the plugin loading is over, every entry of the directory that is a
\* unit (a .py file other than __init__.py) and whose import does not fail has
\* been imported, whichever other units failed and wherever they are listed.
C13_FailureSkipsOnlyItself ==
    LoadComplete =>
        \A i \in 1..Len(plugins) :
            (Loadable(plugins[i]) /\ ~plugins[i].broken) => plugins[i].stem \in Modules

\* C14: whatever the order of the ready and message events, on_message looks a
\* message of another author up in the forward or the command registry only once
\* the plugin loading is over.
C14_NoMessageBeforeLoaded ==
    \A t \in LoopTasks : (pc[t] # "idle" /\ msg[t].author # SelfId) => LoadComplete

\* the number of times callback is invoked as a forward in the trace of t
TimesForwarded(t, callback) ==
    Cardinality({i \in 1..Len(trace[t]) :
                    trace[t][i].ev = "forward" /\ trace[t][i].callback = callback})

\* C15: however many ready events the client gets, the plugin loading is started
\* at most once and no unit's body runs twice, so that no subscription is twice
\* in the forward list of a channel and none is invoked twice for a message; a
\* message that went through its channel's list without a subscription closing
\* it or raising had each subscription invoked exactly once.
C15_LoadedOnce ==
    /\ loadRuns <= 1
    /\ \A i \in 1..Len(executed), j \in 1..Len(executed) :
          i # j => executed[i] # executed[j]
    /\ \A c \in ChannelNames :
          ChainHas(maps, forwards, ClientClass, c) =>
              LET list == ChainGet(maps, forwards, ClientClass, c)
              IN  \A i \in 1..Len(list), j \in 1..Len(list) : i # j => list[i] # list[j]
    /\ \A t \in LoopTasks, cb \in ForwardCallbacks : TimesForwarded(t, cb) <= 1
    /\ \A t \in LoopTasks :
          (pc[t] \in {"await_handler", "await_send", "done"} /\ escaped[t] # "Exception"
             /\ EventsOf(t, "forward") # <<>>) =>
              LET list == ForwardList(msg[t])
                  last == IF FirstClosed(list) = 0 THEN Len(list) ELSE FirstClosed(list)
              IN  \A i \in 1..Len(list) :
                     TimesForwarded(t, list[i].callback) = IF i <= last THEN 1 ELSE 0

\* echo.py is loaded, a later ready event was ignored, and "!ping" on general was
\* forwarded to f1 once before ping was called
C15_Witness ==
    /\ lastReady = "ignored" /\ loadRuns = 1
    /\ executed = <<"echo">>
    /\ \E t \in LoopTasks :
          /\ pc[t] = "done" /\ msg[t].author = UserId
          /\ msg[t].content = <<"!">> \o ping
          /\ TimesForwarded(t, "f1") = 1
          /\ Len(EventsOf(t, "call")) = 1

\* C17: a message whose forward or command callback does not finish never keeps
\* another message from being taken and processed: while task a is inside a
\* callback (awaited or not), the on_message of any other task b, not itself
\* inside a callback that hangs, can take its next step.
C17_HangingCallbackBlocksNobody ==
    \A a \in LoopTasks, b \in LoopTasks :
        (/\ a # b
         /\ pc[a] \in {"await_forward", "await_handler", "blocked"}
         /\ pc[b] # "blocked"
         /\ onReady # "loading") =>
        ENABLED TaskStep(b)

\* C18: a step of on_message, whatever it does (takes a message, forwards it,
\* drops it, denies it, calls the command callback, handles what it raised),
\* leaves the tables of every class as they were, and with them the command and
\* forward lists every class resolves.
C18_MessagesLeaveRegistries ==
    [][(pc' # pc \/ msg' # msg \/ trace' # trace \/ locals' # locals) =>
       (/\ maps' = maps
        /\ commands' = commands
        /\ forwards' = forwards
        /\ \A c \in ChannelNames :
              /\ ChainHas(maps, forwards, ClientClass, c)' = ChainHas(maps, forwards, ClientClass, c)
              /\ ForwardList([channel |-> [name |-> c]])' = ForwardList([channel |-> [name |-> c]])
        /\ \A name \in {ping, help, kick} :
              ChainHas(maps, commands, ClientClass, name)'
                  = ChainHas(maps, commands, ClientClass, name))]_vars

\* with kick.py loaded: one message was denied ("!kick x" by a member would be;
\* here the admin's kick raised and got the internal-error reply) while the other
\* task's "!ping" is inside its awaited callback
C18_Witness ==
    /\ executed = <<"kick">> /\ onReady = "done"
    /\ pc[1] = "done" /\ msg[1].content = <<"!">> \o kick \o <<Space, "x">>
    /\ Len(Replies(1, "internal")) = 1
    /\ pc[2] = "await_handler" /\ locals[2].callback = "ping"
    /\ commands = LoadCommands(ImportedCommands, UnitCommands("kick"))
    /\ forwards = NoTables

-----------------------------------------------------------------------------
(* Further properties of on_message, checked under Spec and SpecParse *)

\* C16: for a message whose author is the bot itself, on_message ends at once: no
\* subscription is invoked, also on a channel that has some, no lookup is made, no
\* reply is sent, no command callback is called and nothing is raised.
C16_OwnMessagesIgnored ==
    \A t \in Tasks : (pc[t] # "idle" /\ msg[t].author = SelfId) =>
        /\ pc[t] = "done"
        /\ trace[t] = <<>>
        /\ idx[t] = 0
        /\ locals[t] = NoLocals
        /\ escaped[t] = ""

\* the bot's own "!ping" on general, where two subscriptions listen
C16_Witness ==
    \E t \in Tasks :
        /\ pc[t] = "done" /\ msg[t].author = SelfId
        /\ msg[t].content = PREFIX \o ping
        /\ msg[t].channel.name = "general"
        /\ Len(ForwardList(msg[t])) = 2
        /\ trace[t] = <<>>

\* the first check of lines 126-147 that fails for the command of t, "none" if all pass
FirstFailing(t) ==
    IF ~Found(t) THEN "unknown"
    ELSE IF ~ChannelOk(t) THEN "channel"
    ELSE IF ~RoleOk(t) THEN "role"
    ELSE IF ~PatternOk(t) THEN "pattern"
    ELSE "none"

\* C19: per message on_message goes forward only, through the forwards, one
\* lookup, then either one denial or the call of the callback (followed by the
\* internal-error reply when it raised), with at most one reply in all; when
\* checks fail the only denial is that of the first failing one in the order
\* unknown command, channel scope, role scope, pattern, and the callback is not
\* called.
C19_OneReplyOfFirstFailingCheck ==
    \A t \in Tasks : Working(t) =>
        LET k == Len(EventsOf(t, "forward"))
            rest == SubSeq(trace[t], k + 1, Len(trace[t]))
        IN  /\ Len(EventsOf(t, "reply")) <= 1
            /\ Len(EventsOf(t, "lookup")) <= 1
            /\ Len(EventsOf(t, "call")) <= 1
            /\ rest # <<>> =>
                  /\ rest[1] = LookupEv(locals[t].cmd_name)
                  /\ Len(rest) <= 3
                  /\ Len(rest) >= 2 => rest[2].ev \in {"reply", "call"}
                  /\ (Len(rest) >= 2 /\ rest[2].ev = "reply") =>
                        Len(rest) = 2 /\ rest[2].kind # "internal"
                  /\ Len(rest) = 3 =>
                        /\ rest[2].ev = "call" /\ rest[3] = InternalError(msg[t])
                        /\ locals[t].ending = "raises"
            /\ (CommandStage(t) /\ FirstFailing(t) # "none") =>
                  /\ Len(rest) = 2
                  /\ rest[2].ev = "reply" /\ rest[2].kind = FirstFailing(t)
                  /\ rest[2].to = msg[t].author
                  /\ pc[t] \in {"await_send", "done"}
            /\ (CommandStage(t) /\ FirstFailing(t) = "none") =>
                  \A i \in 1..Len(rest) :
                      rest[i].ev = "reply" => rest[i].kind = "internal"

\* "!kick" by a member on test-bot fails the channel check, the role check and the
\* pattern: the one reply is the channel denial
C19_Witness ==
    \E t \in Tasks :
        /\ pc[t] = "done" /\ PREFIX = <<"!">>
        /\ msg[t].author = UserId /\ msg[t].content = PREFIX \o kick
        /\ msg[t].channel.name = "test-bot" /\ msg[t].roles = {"member"}
        /\ locals[t].cmd_name = kick
        /\ ~ChannelOk(t) /\ ~RoleOk(t) /\ ~PatternOk(t)
        /\ Len(EventsOf(t, "reply")) = 1
        /\ Replies(t, "channel") =
              <<ReplyEv("channel", msg[t], UserId, kick, Scope({"general"}), NonePattern)>>

\* C20: the detection of the invocation style is total: for every text, the empty
\* one, the prefix alone, the mention alone and a mention with characters right
\* after it included, it gives a command name and a payload, or drops the message,
\* and raises nothing.
C20_DetectionIsTotal ==
    pout.kind # "none" => pout.kind \in {"command", "return"}

====
